---- MODULE Spec2Model ----
(***************************************************************************)
(* A model of cdunster/rust-os: the VGA text-mode writer                   *)
(* (src/src/vga_buffer.rs), its spin lock and interrupt masking, the test  *)
(* harness of src/src/main.rs and the stack-overflow test binary           *)
(* (src/tests/stack_overflow.rs).                                          *)
(*                                                                         *)
(* Rows and columns are 0-based as in the source.  A string is a sequence  *)
(* of bytes (s.bytes()).                                                   *)
(***************************************************************************)
EXTENDS Integers, Sequences, FiniteSets, TLC

(***************************************************************************)
(* Bounds of the model.  The grid of the source is 25 x 80                 *)
(* (vga_buffer.rs:6-7); the model keeps the names and checks a smaller     *)
(* grid, every formula being stated in terms of BUFFER_HEIGHT and          *)
(* BUFFER_WIDTH.                                                           *)
(***************************************************************************)
BUFFER_HEIGHT == 3
BUFFER_WIDTH == 4
\* Longest string over the whole byte alphabet handed to write_string.
MaxLen == 1
\* Number of writer operations in one run.
MaxCalls == 2

\* b'\n'
NEWLINE == 10
\* b' '
SPACE == 32
\* The last printable byte, b'~'.
TILDE == 126
\* The glyph written for a byte outside the printable range.
PLACEHOLDER == 254

\* The input bytes of the model: the newline, the two ends of the printable
\* range, and the bytes just outside it on either side.
Bytes == {NEWLINE, SPACE - 1, SPACE, TILDE, TILDE + 1}

\* Colour::Black, Colour::LightGrey, Colour::White as u8.
Black == 0
LightGrey == 7
White == 15

\* ColourCode::new
ColourCode_new(foreground, background) == (background * 16 + foreground) % 256

\* struct ScreenChar
ScreenChar(a, c) == [ascii_char |-> a, colour_code |-> c]

Rows == 0 .. BUFFER_HEIGHT - 1
Cols == 0 .. BUFFER_WIDTH - 1

VARIABLES
    cursor_column,  \* Writer.cursor_column
    colour_code,    \* Writer.colour_code
    buffer,         \* Writer.buffer.chars: the memory at 0xB8000
    panicked,       \* an index was out of bounds: the program panicked
    written,        \* the cells the writer has written since its construction
    unwritten_read, \* new_line has read a cell the writer never wrote
    call,           \* the operation performed last, with its argument
    calls,          \* the number of operations performed
    \* The WRITER lock and the interrupt flag (_print, without_interrupts).
    build,          \* "kernel" (cfg(not(test))) or "test" (cfg(test))
    interrupts,     \* RFLAGS.IF: hardware interrupts are enabled
    lock,           \* the holder of the WRITER spin lock, or "free"
    pc,             \* the position of each context
    frames,         \* each context's calls of without_interrupts in progress
    pending,        \* each context's bytes still to be written by write_fmt
    irqs,           \* the number of interrupts delivered
    \* The test harness and the exit protocol.
    hpc,            \* the position of the test binary
    tests,          \* the checks handed to test_runner
    next_test,      \* the index of the check test_runner runs next
    ran,            \* the indices of the checks run, in order
    serial,         \* what was written to the serial channel
    exit_port,      \* the codes written to port 0xF4
    stack_depth,    \* the frames of cause_stack_overflow on the stack
    tss_loaded,     \* gdt::init has installed the alternate stack
    idt,            \* the interrupt descriptor table loaded, or NoIdt
    handler_runs    \* how often test_double_fault_handler was entered

wvars == <<cursor_column, colour_code, buffer, panicked, written, unwritten_read>>
gvars == <<call, calls>>
svars == <<build, interrupts, lock, pc, frames, pending, irqs>>
hvars == <<hpc, tests, next_test, ran, serial, exit_port, stack_depth, tss_loaded,
           idt, handler_runs>>
vars == <<wvars, gvars, svars, hvars>>

(***************************************************************************)
(* The writer as a value: the fields of struct Writer, the panic flag, the  *)
(* cells written so far, whether a cell was read that was never written,   *)
(* and the cell writes write_byte has made during the current operation.   *)
(***************************************************************************)
TheWriter ==
    [cursor_column |-> cursor_column, colour_code |-> colour_code,
     buffer |-> buffer, panicked |-> panicked, written |-> written,
     unwritten_read |-> unwritten_read, writes |-> <<>>]

\* Rust's bounds check of chars[row][col].
InBounds(row, col) == row \in Rows /\ col \in Cols

\* self.buffer.chars[row][col].write(ch); an index out of bounds panics.
chars_write(w, row, col, ch) ==
    IF w.panicked THEN w
    ELSE IF InBounds(row, col)
         THEN [w EXCEPT !.buffer[row][col] = ch,
                        !.written = @ \cup {<<row, col>>}]
         ELSE [w EXCEPT !.panicked = TRUE]

\* let char = self.buffer.chars[row][col].read(): the cell as the memory
\* holds it, written by the writer or not.
chars_read(w, row, col) ==
    [w EXCEPT !.unwritten_read = @ \/ <<row, col>> \notin w.written]

\* The body of new_line's loops: chars[row - 1][col] := chars[row][col].
RECURSIVE new_line_loop(_, _, _)
new_line_loop(w, row, col) ==
    IF w.panicked \/ row >= BUFFER_HEIGHT THEN w
    ELSE IF col >= BUFFER_WIDTH THEN new_line_loop(w, row + 1, 0)
    ELSE IF ~InBounds(row, col) THEN [w EXCEPT !.panicked = TRUE]
    ELSE LET char == w.buffer[row][col]
             w1 == chars_read(w, row, col)
         IN  new_line_loop(chars_write(w1, row - 1, col, char), row, col + 1)

\* Writer::clear_row's loop from column col on.
RECURSIVE clear_row_loop(_, _, _)
clear_row_loop(w, row, col) ==
    IF w.panicked \/ col >= BUFFER_WIDTH THEN w
    ELSE LET blank == ScreenChar(SPACE, w.colour_code)
         IN  clear_row_loop(chars_write(w, row, col, blank), row, col + 1)

\* clear_row with its loop started at column 1.
clear_row_from_1(w, row) == clear_row_loop(w, row, 1)

\* clear_row also moving the cursor to column 0.
clear_row_resets_cursor(w, row) ==
    LET w1 == clear_row_loop(w, row, 0)
    IN  IF w1.panicked THEN w1 ELSE [w1 EXCEPT !.cursor_column = 0]

\* Writer::clear_row
clear_row(w, row) == clear_row_loop(w, row, 0)

\* new_line with the row loop started at row 0: row - 1 underflows.
new_line_from_row_0(w) ==
    LET w1 == new_line_loop(w, 0, 0)
        w2 == clear_row(w1, BUFFER_HEIGHT - 1)
    IN  IF w2.panicked THEN w2 ELSE [w2 EXCEPT !.cursor_column = 0]

\* new_line clearing the last row before the rows are copied up.
new_line_clear_first(w) ==
    LET w1 == clear_row(w, BUFFER_HEIGHT - 1)
        w2 == new_line_loop(w1, 1, 0)
    IN  IF w2.panicked THEN w2 ELSE [w2 EXCEPT !.cursor_column = 0]

\* new_line without its last statement, self.cursor_column = 0.
new_line_keeps_cursor(w) ==
    LET w1 == new_line_loop(w, 1, 0)
    IN  clear_row(w1, BUFFER_HEIGHT - 1)

\* Writer::new_line
new_line(w) ==
    LET w1 == new_line_loop(w, 1, 0)
        w2 == clear_row(w1, BUFFER_HEIGHT - 1)
    IN  IF w2.panicked THEN w2 ELSE [w2 EXCEPT !.cursor_column = 0]

\* write_byte wrapping on cursor_column > BUFFER_WIDTH instead of >=.
write_byte_wrap_late(w, byte) ==
    IF w.panicked THEN w
    ELSE IF byte = NEWLINE THEN new_line(w)
    ELSE LET w1 == IF w.cursor_column > BUFFER_WIDTH THEN new_line(w) ELSE w
             row == BUFFER_HEIGHT - 1
             col == w1.cursor_column
             ch == ScreenChar(byte, w1.colour_code)
             w2 == chars_write(w1, row, col, ch)
         IN  IF w2.panicked THEN w2
             ELSE [w2 EXCEPT !.cursor_column = col + 1,
                             !.writes = Append(@, [row |-> row, col |-> col, ch |-> ch])]

\* write_byte without the check of cursor_column against BUFFER_WIDTH.
write_byte_no_wrap(w, byte) ==
    IF w.panicked THEN w
    ELSE IF byte = NEWLINE THEN new_line(w)
    ELSE LET row == BUFFER_HEIGHT - 1
             col == w.cursor_column
             ch == ScreenChar(byte, w.colour_code)
             w2 == chars_write(w, row, col, ch)
         IN  IF w2.panicked THEN w2
             ELSE [w2 EXCEPT !.cursor_column = col + 1,
                             !.writes = Append(@, [row |-> row, col |-> col, ch |-> ch])]

\* write_byte wrapping one column early, on cursor_column >= BUFFER_WIDTH - 1.
write_byte_wrap_at_last_col(w, byte) ==
    IF w.panicked THEN w
    ELSE IF byte = NEWLINE THEN new_line(w)
    ELSE LET w1 == IF w.cursor_column >= BUFFER_WIDTH - 1 THEN new_line(w) ELSE w
             row == BUFFER_HEIGHT - 1
             col == w1.cursor_column
             ch == ScreenChar(byte, w1.colour_code)
             w2 == chars_write(w1, row, col, ch)
         IN  IF w2.panicked THEN w2
             ELSE [w2 EXCEPT !.cursor_column = col + 1,
                             !.writes = Append(@, [row |-> row, col |-> col, ch |-> ch])]

\* write_byte breaking the line as soon as the row is full, after the write.
write_byte_wrap_eager(w, byte) ==
    IF w.panicked THEN w
    ELSE IF byte = NEWLINE THEN new_line(w)
    ELSE LET row == BUFFER_HEIGHT - 1
             col == w.cursor_column
             ch == ScreenChar(byte, w.colour_code)
             w2 == chars_write(w, row, col, ch)
             w3 == [w2 EXCEPT !.cursor_column = col + 1,
                              !.writes = Append(@, [row |-> row, col |-> col, ch |-> ch])]
         IN  IF w2.panicked THEN w2
             ELSE IF w3.cursor_column >= BUFFER_WIDTH THEN new_line(w3) ELSE w3

\* Writer::write_byte
write_byte(w, byte) ==
    IF w.panicked THEN w
    ELSE IF byte = NEWLINE THEN new_line(w)
    ELSE LET w1 == IF w.cursor_column >= BUFFER_WIDTH THEN new_line(w) ELSE w
             row == BUFFER_HEIGHT - 1
             col == w1.cursor_column
             ch == ScreenChar(byte, w1.colour_code)
             w2 == chars_write(w1, row, col, ch)
         IN  IF w2.panicked THEN w2
             ELSE [w2 EXCEPT !.cursor_column = col + 1,
                             !.writes = Append(@, [row |-> row, col |-> col, ch |-> ch])]

\* The match with the range 0x20..0x7E, its end excluded.
match_byte_exclusive(byte) ==
    IF (byte >= SPACE /\ byte < TILDE) \/ byte = NEWLINE THEN byte ELSE PLACEHOLDER

\* The match with the range 0x20..=0x7F.
match_byte_through_del(byte) ==
    IF (byte >= SPACE /\ byte <= TILDE + 1) \/ byte = NEWLINE THEN byte ELSE PLACEHOLDER

\* The match of write_string: the byte handed to write_byte.
match_byte(byte) ==
    IF (byte >= SPACE /\ byte <= TILDE) \/ byte = NEWLINE THEN byte ELSE PLACEHOLDER

\* Writer::write_string: the loop over s.bytes() from index i on.
RECURSIVE write_string_loop(_, _, _)
write_string_loop(w, s, i) ==
    IF i > Len(s) THEN w
    ELSE write_string_loop(write_byte(w, match_byte(s[i])), s, i + 1)

write_string(w, s) == write_string_loop(w, s, 1)

\* println!("{}", s): write_fmt hands the pieces s and "\n" to write_str.
println(w, s) == write_string(write_string(w, s), <<NEWLINE>>)

(***************************************************************************)
(* The inputs.                                                             *)
(***************************************************************************)
\* Every string over Bytes of at most MaxLen bytes.
ShortStrings == UNION {[1 .. n -> Bytes] : n \in 0 .. MaxLen}

\* n distinct printable bytes, "ABC...".
Fill(n) == [i \in 1 .. n |-> 64 + i]
\* Fill(n) with its bytes at width and width + 1 outside the printable range.
FillNP(n) ==
    [i \in 1 .. n |-> IF i = BUFFER_WIDTH THEN TILDE + 1
                      ELSE IF i = BUFFER_WIDTH + 1 THEN SPACE - 1 ELSE 64 + i]
\* k line breaks.
Newlines(k) == [i \in 1 .. k |-> NEWLINE]
\* "Line 1\nLine 2" with lines of n and m bytes.
TwoLines(n, m) == Fill(n) \o <<NEWLINE>> \o [i \in 1 .. m |-> 96 + i]

LongStrings ==
    {Fill(n) : n \in MaxLen + 1 .. 2 * BUFFER_WIDTH}
        \cup {FillNP(n) : n \in BUFFER_WIDTH + 1 .. 2 * BUFFER_WIDTH}
        \cup {Newlines(k) : k \in MaxLen + 1 .. BUFFER_HEIGHT + 1}
        \cup {TwoLines(n, m) : n, m \in {1, BUFFER_WIDTH - 1}}

Strings == ShortStrings \cup LongStrings

\* The lines handed to println!.
Lines == {Fill(n) : n \in 0 .. BUFFER_WIDTH + 1} \cup {<<TILDE + 1>>}

\* What the memory at 0xB8000 holds when the writer is constructed: the
\* writer does not initialise it.  Either zeroes, or text left by the firmware.
BootBuffers ==
    {[r \in Rows |-> [c \in Cols |-> ScreenChar(0, 0)]],
     [r \in Rows |-> [c \in Cols |-> ScreenChar(48 + r, ColourCode_new(LightGrey, Black))]]}

NoCall == [op |-> "none", bytes |-> <<>>, row |-> 0, col0 |-> 0, writes |-> <<>>]

Contexts == {"main", "irq"}

\* An interrupt descriptor table without a double-fault entry.
NoIdt == [double_fault |-> [handler |-> "none", stack_index |-> -1]]

\* lazy_static! WRITER
WriterInit ==
    /\ cursor_column = 0
    /\ colour_code = ColourCode_new(White, Black)
    /\ buffer \in BootBuffers
    /\ panicked = FALSE
    /\ written = {}
    /\ unwritten_read = FALSE
    /\ call = NoCall
    /\ calls = 0

\* The lock and the interrupt flag where they play no part.
SyncIdle ==
    /\ build = "kernel"
    /\ interrupts = FALSE
    /\ lock = "free"
    /\ pc = [c \in Contexts |-> "idle"]
    /\ frames = [c \in Contexts |-> <<>>]
    /\ pending = [c \in Contexts |-> <<>>]
    /\ irqs = 0

\* The harness where it plays no part.
HarnessIdle ==
    /\ hpc = "idle"
    /\ tests = <<>>
    /\ next_test = 1
    /\ ran = <<>>
    /\ serial = <<>>
    /\ exit_port = <<>>
    /\ stack_depth = 0
    /\ tss_loaded = FALSE
    /\ idt = NoIdt
    /\ handler_runs = 0

Init == WriterInit /\ SyncIdle /\ HarnessIdle

\* The writer's fields after an operation that left the writer w.
Becomes(w, op, bytes, row) ==
    /\ cursor_column' = w.cursor_column
    /\ colour_code' = w.colour_code
    /\ buffer' = w.buffer
    /\ panicked' = w.panicked
    /\ written' = w.written
    /\ unwritten_read' = w.unwritten_read
    /\ call' = [op |-> op, bytes |-> bytes, row |-> row, col0 |-> cursor_column,
                writes |-> w.writes]
    /\ calls' = calls + 1
    /\ UNCHANGED <<svars, hvars>>

CanCall == ~panicked /\ calls < MaxCalls

WriteString ==
    /\ CanCall
    /\ \E s \in Strings : Becomes(write_string(TheWriter, s), "write_string", s, 0)

\* A run may go on for one write_byte after a clear_row that was its last
\* operation.
AfterClearRow == ~panicked /\ calls = MaxCalls /\ call.op = "clear_row"

WriteByte ==
    /\ CanCall \/ AfterClearRow
    /\ \E b \in Bytes \cup {PLACEHOLDER} :
          Becomes(write_byte(TheWriter, b), "write_byte", <<b>>, 0)

ClearRow ==
    /\ CanCall
    /\ \E r \in Rows : Becomes(clear_row(TheWriter, r), "clear_row", <<>>, r)

Println ==
    /\ CanCall
    /\ \E s \in Lines : Becomes(println(TheWriter, s), "println", s, 0)

Next == WriteString \/ WriteByte \/ ClearRow \/ Println

Spec == Init /\ [][Next]_vars

(***************************************************************************)
(* The WRITER lock and interrupt masking.  One CPU: the main flow, and an   *)
(* interrupt handler that prints (the asynchronous context the lock is      *)
(* guarded against).  Each step is one action; a context waiting for the    *)
(* lock spins, that is, takes no step.                                      *)
(***************************************************************************)
\* Operations the main flow starts in one run.
MaxOps == 2
\* Interrupts delivered in one run.
MaxIrqs == 1

\* QemuExitCode
Success == 16
Failed == 17

\* What the main flow prints, what the interrupt handler prints, and the
\* panic handler's println!("{}", info).
MainMsgs == {<<65>>, <<66, NEWLINE>>}
IrqMsg == <<73>>
PanicMsg == <<80, NEWLINE>>

\* A call of without_interrupts in progress: fn is what runs inside it, saved
\* the interrupt flag read on entry, ret where the caller continues.
Frame(fn, ret) == [fn |-> fn, saved |-> FALSE, ret |-> ret]
Top(c) == frames[c][Len(frames[c])]

\* The context the CPU is executing: the handler while one is active.
Running(c) == IF c = "irq" THEN pc["irq"] # "idle" ELSE pc["irq"] = "idle"

SyncInit ==
    /\ WriterInit
    /\ build \in {"kernel", "test"}
    /\ interrupts \in BOOLEAN
    /\ lock = "free"
    /\ pc = [c \in Contexts |-> "idle"]
    /\ frames = [c \in Contexts |-> <<>>]
    /\ pending = [c \in Contexts |-> <<>>]
    /\ irqs = 0
    /\ HarnessIdle

\* _print(args) is called: it enters without_interrupts.
CallPrint(c, s, ret) ==
    /\ frames' = [frames EXCEPT ![c] = Append(@, Frame("print", ret))]
    /\ pending' = [pending EXCEPT ![c] = s]
    /\ pc' = [pc EXCEPT ![c] = "wi_read"]

\* print! / println! in the main flow, at top level or inside a test's
\* without_interrupts closure.
MainPrint ==
    /\ Running("main")
    /\ pc["main"] \in {"idle", "body"}
    /\ calls < MaxOps
    /\ \E s \in MainMsgs : CallPrint("main", s, pc["main"])
    /\ calls' = calls + 1
    /\ UNCHANGED <<wvars, call, build, interrupts, lock, irqs, hvars>>

\* A test enters its without_interrupts closure.
MainTest ==
    /\ Running("main")
    /\ build = "test"
    /\ pc["main"] = "idle"
    /\ calls < MaxOps
    /\ frames' = [frames EXCEPT !["main"] = Append(@, Frame("test", "idle"))]
    /\ pc' = [pc EXCEPT !["main"] = "wi_read"]
    /\ calls' = calls + 1
    /\ UNCHANGED <<wvars, call, build, interrupts, lock, pending, irqs, hvars>>

\* without_interrupts: let saved_intpt_flag = are_enabled();
WiRead(c) ==
    /\ Running(c)
    /\ pc[c] = "wi_read"
    /\ frames' = [frames EXCEPT ![c][Len(frames[c])].saved = interrupts]
    /\ pc' = [pc EXCEPT ![c] = "wi_cli"]
    /\ UNCHANGED <<wvars, gvars, build, interrupts, lock, pending, irqs, hvars>>

\* without_interrupts entered without masking anything.
WiCli_no_disable(c) ==
    /\ Running(c)
    /\ pc[c] = "wi_cli"
    /\ pc' = [pc EXCEPT ![c] = IF Top(c).fn = "print" THEN "lock" ELSE "body"]
    /\ UNCHANGED <<wvars, gvars, build, interrupts, lock, frames, pending, irqs, hvars>>

\* without_interrupts calling enable() where it is to call disable().
WiCli_enables(c) ==
    /\ Running(c)
    /\ pc[c] = "wi_cli"
    /\ interrupts' = IF Top(c).saved THEN TRUE ELSE interrupts
    /\ pc' = [pc EXCEPT ![c] = IF Top(c).fn = "print" THEN "lock" ELSE "body"]
    /\ UNCHANGED <<wvars, gvars, build, lock, frames, pending, irqs, hvars>>

\* without_interrupts: if saved_intpt_flag { disable(); }, then the closure.
WiCli(c) ==
    /\ Running(c)
    /\ pc[c] = "wi_cli"
    /\ interrupts' = IF Top(c).saved THEN FALSE ELSE interrupts
    /\ pc' = [pc EXCEPT ![c] = IF Top(c).fn = "print" THEN "lock" ELSE "body"]
    /\ UNCHANGED <<wvars, gvars, build, lock, frames, pending, irqs, hvars>>

\* WRITER.lock() in _print: taken when free; otherwise the context spins.
Lock(c) ==
    /\ Running(c)
    /\ pc[c] = "lock"
    /\ lock = "free"
    /\ lock' = c
    /\ pc' = [pc EXCEPT ![c] = "write"]
    /\ UNCHANGED <<wvars, gvars, build, interrupts, frames, pending, irqs, hvars>>

\* write_fmt: write_string hands the next byte to write_byte.
Write(c) ==
    /\ Running(c)
    /\ pc[c] = "write"
    /\ pending[c] # <<>>
    /\ LET w == write_byte(TheWriter, match_byte(Head(pending[c])))
       IN  /\ cursor_column' = w.cursor_column
           /\ colour_code' = w.colour_code
           /\ buffer' = w.buffer
           /\ panicked' = w.panicked
           /\ written' = w.written
           /\ unwritten_read' = w.unwritten_read
    /\ pending' = [pending EXCEPT ![c] = Tail(@)]
    /\ UNCHANGED <<gvars, build, interrupts, lock, pc, frames, irqs, hvars>>

\* write_fmt returns Err (a Display implementation failed): unwrap panics,
\* the lock guard still alive.
FmtError(c) ==
    /\ Running(c)
    /\ pc[c] = "write"
    /\ pc' = [pc EXCEPT ![c] = "panic"]
    /\ UNCHANGED <<wvars, gvars, build, interrupts, lock, frames, pending, irqs, hvars>>

\* The statement of _print ends: the lock guard is dropped.
Unlock(c) ==
    /\ Running(c)
    /\ pc[c] = "write"
    /\ pending[c] = <<>>
    /\ lock' = "free"
    /\ pc' = [pc EXCEPT ![c] = "wi_restore"]
    /\ UNCHANGED <<wvars, gvars, build, interrupts, frames, pending, irqs, hvars>>

\* without_interrupts: if saved_intpt_flag { enable(); }, and return.
WiRestore(c) ==
    /\ Running(c)
    /\ pc[c] = "wi_restore"
    /\ interrupts' = IF Top(c).saved THEN TRUE ELSE interrupts
    /\ pc' = [pc EXCEPT ![c] = Top(c).ret]
    /\ frames' = [frames EXCEPT ![c] = SubSeq(@, 1, Len(@) - 1)]
    /\ UNCHANGED <<wvars, gvars, build, lock, pending, irqs, hvars>>

\* A test's WRITER.lock() inside its closure.
DirectLock ==
    /\ Running("main")
    /\ pc["main"] = "body"
    /\ lock = "free"
    /\ lock' = "main"
    /\ pc' = [pc EXCEPT !["main"] = "daccess"]
    /\ UNCHANGED <<wvars, gvars, build, interrupts, frames, pending, irqs, hvars>>

\* ... .buffer.chars[row][i].read()
DirectRead ==
    /\ Running("main")
    /\ pc["main"] = "daccess"
    /\ pc' = [pc EXCEPT !["main"] = "dunlock"]
    /\ UNCHANGED <<wvars, gvars, build, interrupts, lock, frames, pending, irqs, hvars>>

\* ... .clear_row(BUFFER_HEIGHT - 1)
DirectClearRow ==
    /\ Running("main")
    /\ pc["main"] = "daccess"
    /\ LET w == clear_row(TheWriter, BUFFER_HEIGHT - 1)
       IN  /\ buffer' = w.buffer
           /\ panicked' = w.panicked
           /\ written' = w.written
    /\ pc' = [pc EXCEPT !["main"] = "dunlock"]
    /\ UNCHANGED <<cursor_column, colour_code, unwritten_read, gvars, build, interrupts, lock, frames,
                   pending, irqs, hvars>>

\* The statement ends: the guard is dropped.
DirectUnlock ==
    /\ Running("main")
    /\ pc["main"] = "dunlock"
    /\ lock' = "free"
    /\ pc' = [pc EXCEPT !["main"] = "body"]
    /\ UNCHANGED <<wvars, gvars, build, interrupts, frames, pending, irqs, hvars>>

\* The test's closure returns.
EndTest ==
    /\ Running("main")
    /\ pc["main"] = "body"
    /\ pc' = [pc EXCEPT !["main"] = "wi_restore"]
    /\ UNCHANGED <<wvars, gvars, build, interrupts, lock, frames, pending, irqs, hvars>>

\* A panic outside _print: a failed assert_eq! of a test, or any panic of the
\* kernel.
PanicRaised ==
    /\ Running("main")
    /\ pc["main"] \in {"idle", "body"}
    /\ pc' = [pc EXCEPT !["main"] = "panic"]
    /\ UNCHANGED <<wvars, gvars, build, interrupts, lock, frames, pending, irqs, hvars>>

\* The panic handler: println!("{}", info) and loop {} in the kernel;
\* the serial report, exit_qemu(Failed) and loop {} in the test build.
PanicHandler(c) ==
    /\ Running(c)
    /\ pc[c] = "panic"
    /\ IF build = "kernel"
       THEN /\ CallPrint(c, PanicMsg, "halt")
            /\ UNCHANGED <<serial, exit_port>>
       ELSE /\ pc' = [pc EXCEPT ![c] = "halt"]
            /\ serial' = serial \o <<"[failed]", "Error">>
            /\ exit_port' = Append(exit_port, Failed)
            /\ UNCHANGED <<frames, pending>>
    /\ UNCHANGED <<wvars, gvars, build, interrupts, lock, irqs, hpc, tests, next_test,
                   ran, stack_depth, tss_loaded, idt, handler_runs>>

\* The CPU delivers a hardware interrupt: it clears the interrupt flag and
\* enters the handler, which prints.
IrqEnter ==
    /\ interrupts
    /\ pc["irq"] = "idle"
    /\ irqs < MaxIrqs
    /\ interrupts' = FALSE
    /\ irqs' = irqs + 1
    /\ CallPrint("irq", IrqMsg, "iret")
    /\ UNCHANGED <<wvars, gvars, build, lock, hvars>>

\* The handler returns: iretq restores the flags of the interrupted context.
IrqReturn ==
    /\ pc["irq"] = "iret"
    /\ interrupts' = TRUE
    /\ pc' = [pc EXCEPT !["irq"] = "idle"]
    /\ UNCHANGED <<wvars, gvars, build, lock, frames, pending, irqs, hvars>>

SyncNext ==
    \/ MainPrint
    \/ MainTest
    \/ DirectLock
    \/ DirectRead
    \/ DirectClearRow
    \/ DirectUnlock
    \/ EndTest
    \/ PanicRaised
    \/ IrqEnter
    \/ IrqReturn
    \/ \E c \in Contexts :
          \/ WiRead(c)
          \/ WiCli(c)
          \/ Lock(c)
          \/ Write(c)
          \/ FmtError(c)
          \/ Unlock(c)
          \/ WiRestore(c)
          \/ PanicHandler(c)

SyncSpec == SyncInit /\ [][SyncNext]_vars

(***************************************************************************)
(* The exit protocol shared by the two test binaries.                       *)
(***************************************************************************)
\* Checks handed to test_runner in one run.
MaxTests == 3
\* Calls of cause_stack_overflow the stack has room for.
StackFrames == 8

\* serial_print! / serial_println!: the message is sent to the serial port.
serial_print(log, msg) == Append(log, msg)

\* exit_qemu: the code is written to port 0xF4, which ends the virtual machine.
exit_qemu(port, exit_code) == Append(port, exit_code)

\* Sequences over S of lo to hi elements.
SeqsOf(S, lo, hi) == UNION {[1 .. n -> S] : n \in lo .. hi}

(***************************************************************************)
(* The stack-overflow test binary (tests/stack_overflow.rs).  A check is    *)
(* should_overflow, or a check that returns, or a check that panics.        *)
(* cause_stack_overflow never returns, so the panic! that follows it in     *)
(* should_overflow is not reached.                                          *)
(***************************************************************************)
OverflowChecks == {"should_overflow", "returns", "panics"}

\* rust_os::gdt::DOUBLE_FAULT_IST_INDEX
DOUBLE_FAULT_IST_INDEX == 0

\* TEST_IDT with set_stack_index left out.
TEST_IDT_no_stack_index ==
    [double_fault |-> [handler |-> "test_double_fault_handler", stack_index |-> -1]]

\* lazy_static! TEST_IDT
TEST_IDT ==
    [double_fault |-> [handler |-> "test_double_fault_handler",
                       stack_index |-> DOUBLE_FAULT_IST_INDEX]]

OverflowInit ==
    /\ WriterInit
    /\ SyncIdle
    /\ hpc = "start"
    /\ tests \in SeqsOf(OverflowChecks, 1, MaxTests)
    /\ next_test = 1
    /\ ran = <<>>
    /\ serial = <<>>
    /\ exit_port = <<>>
    /\ stack_depth = 0
    /\ tss_loaded = FALSE
    /\ idt = NoIdt
    /\ handler_runs = 0

\* test_runner: serial_println!("Running {} tests", tests.len());
RunnerStart ==
    /\ hpc = "start"
    /\ serial' = serial_print(serial, "Running")
    /\ hpc' = "runner"
    /\ UNCHANGED <<wvars, gvars, svars, tests, next_test, ran, exit_port, stack_depth,
                   tss_loaded, idt, handler_runs>>

\* test_runner: the for loop calls the next check; after the loop,
\* exit_qemu(QemuExitCode::Success).
RunnerNext ==
    /\ hpc = "runner"
    /\ IF next_test <= Len(tests)
       THEN /\ hpc' = tests[next_test]
            /\ ran' = Append(ran, next_test)
            /\ next_test' = next_test + 1
            /\ UNCHANGED exit_port
       ELSE /\ exit_port' = exit_qemu(exit_port, Success)
            /\ hpc' = "exited"
            /\ UNCHANGED <<ran, next_test>>
    /\ UNCHANGED <<wvars, gvars, svars, tests, serial, stack_depth, tss_loaded, idt,
                   handler_runs>>

\* test_runner: the check returned; serial_println!("[failed]");
RunnerFailed ==
    /\ hpc = "returns"
    /\ serial' = serial_print(serial, "[failed]")
    /\ hpc' = "runner_exit"
    /\ UNCHANGED <<wvars, gvars, svars, tests, next_test, ran, exit_port, stack_depth,
                   tss_loaded, idt, handler_runs>>

\* test_runner: exit_qemu(QemuExitCode::Failed);
RunnerExitFailed ==
    /\ hpc = "runner_exit"
    /\ exit_port' = exit_qemu(exit_port, Failed)
    /\ hpc' = "exited"
    /\ UNCHANGED <<wvars, gvars, svars, tests, next_test, ran, serial, stack_depth,
                   tss_loaded, idt, handler_runs>>

\* should_overflow: serial_print!("stack_overflow::should_overflow...\t");
ShouldOverflowPrint ==
    /\ hpc = "should_overflow"
    /\ serial' = serial_print(serial, "stack_overflow::should_overflow...")
    /\ hpc' = "gdt_init"
    /\ UNCHANGED <<wvars, gvars, svars, tests, next_test, ran, exit_port, stack_depth,
                   tss_loaded, idt, handler_runs>>

\* rust_os::gdt::init(): the task state segment with the alternate stack of
\* the double fault is loaded.
GdtInit ==
    /\ hpc = "gdt_init"
    /\ tss_loaded' = TRUE
    /\ hpc' = "init_test_idt"
    /\ UNCHANGED <<wvars, gvars, svars, tests, next_test, ran, serial, exit_port,
                   stack_depth, idt, handler_runs>>

\* init_test_idt(): TEST_IDT.load(); then cause_stack_overflow() is called.
InitTestIdt ==
    /\ hpc = "init_test_idt"
    /\ idt' = TEST_IDT
    /\ hpc' = "recursing"
    /\ UNCHANGED <<wvars, gvars, svars, tests, next_test, ran, serial, exit_port,
                   stack_depth, tss_loaded, handler_runs>>

\* cause_stack_overflow calls itself: one more frame on the stack.
Recurse ==
    /\ hpc = "recursing"
    /\ stack_depth < StackFrames
    /\ stack_depth' = stack_depth + 1
    /\ UNCHANGED <<wvars, gvars, svars, hpc, tests, next_test, ran, serial, exit_port,
                   tss_loaded, idt, handler_runs>>

\* The stack is exhausted: the next call faults and the fault cannot be
\* delivered, which raises a double fault.  With the handler registered on
\* an alternate stack that the task state segment provides, the CPU switches
\* to that stack and enters the handler; otherwise the double fault cannot
\* be delivered either, and the machine resets (triple fault).
DoubleFault ==
    /\ hpc = "recursing"
    /\ stack_depth = StackFrames
    /\ IF /\ idt.double_fault.handler = "test_double_fault_handler"
          /\ idt.double_fault.stack_index = DOUBLE_FAULT_IST_INDEX
          /\ tss_loaded
       THEN /\ hpc' = "double_fault_handler"
            /\ handler_runs' = handler_runs + 1
       ELSE /\ hpc' = "reset"
            /\ UNCHANGED handler_runs
    /\ UNCHANGED <<wvars, gvars, svars, tests, next_test, ran, serial, exit_port,
                   stack_depth, tss_loaded, idt>>

\* test_double_fault_handler: serial_println!("[ok]");
HandlerPrint ==
    /\ hpc = "double_fault_handler"
    /\ serial' = serial_print(serial, "[ok]")
    /\ hpc' = "double_fault_exit"
    /\ UNCHANGED <<wvars, gvars, svars, tests, next_test, ran, exit_port, stack_depth,
                   tss_loaded, idt, handler_runs>>

\* test_double_fault_handler returning after exit_qemu: the faulting call is
\* executed again.
HandlerExit_returns ==
    /\ hpc = "double_fault_exit"
    /\ exit_port' = exit_qemu(exit_port, Success)
    /\ hpc' = "recursing"
    /\ UNCHANGED <<wvars, gvars, svars, tests, next_test, ran, serial, stack_depth,
                   tss_loaded, idt, handler_runs>>

\* test_double_fault_handler: exit_qemu(QemuExitCode::Success);
HandlerExit ==
    /\ hpc = "double_fault_exit"
    /\ exit_port' = exit_qemu(exit_port, Success)
    /\ hpc' = "exited"
    /\ UNCHANGED <<wvars, gvars, svars, tests, next_test, ran, serial, stack_depth,
                   tss_loaded, idt, handler_runs>>

\* A check panics.
CheckPanics ==
    /\ hpc = "panics"
    /\ hpc' = "panic"
    /\ UNCHANGED <<wvars, gvars, svars, tests, next_test, ran, serial, exit_port,
                   stack_depth, tss_loaded, idt, handler_runs>>

\* panic (stack_overflow.rs): serial_println!("[ok]");
OverflowPanicPrint ==
    /\ hpc = "panic"
    /\ serial' = serial_print(serial, "[ok]")
    /\ hpc' = "panic_exit"
    /\ UNCHANGED <<wvars, gvars, svars, tests, next_test, ran, exit_port, stack_depth,
                   tss_loaded, idt, handler_runs>>

\* panic (stack_overflow.rs): exit_qemu(QemuExitCode::Success);
OverflowPanicExit ==
    /\ hpc = "panic_exit"
    /\ exit_port' = exit_qemu(exit_port, Success)
    /\ hpc' = "exited"
    /\ UNCHANGED <<wvars, gvars, svars, tests, next_test, ran, serial, stack_depth,
                   tss_loaded, idt, handler_runs>>

OverflowNext ==
    \/ RunnerStart
    \/ RunnerNext
    \/ RunnerFailed
    \/ RunnerExitFailed
    \/ ShouldOverflowPrint
    \/ GdtInit
    \/ InitTestIdt
    \/ Recurse
    \/ DoubleFault
    \/ HandlerPrint
    \/ HandlerExit
    \/ CheckPanics
    \/ OverflowPanicPrint
    \/ OverflowPanicExit

\* The CPU keeps executing: a step that can be taken is taken.
OverflowSpec == OverflowInit /\ [][OverflowNext]_vars /\ WF_vars(OverflowNext)

(***************************************************************************)
(* The test build of the kernel binary (main.rs, cfg(test)).  A check       *)
(* either returns ("passes", as println_not_panic) or is trivial_assertion, *)
(* whose assert_eq!(1, 0) panics.                                           *)
(***************************************************************************)
MainChecks == {"passes", "trivial_assertion"}

\* "Hello, World!" and "Another line!", shortened to the model's grid.
HelloWorld == Fill(2)
AnotherLine == Fill(3)

HarnessInit ==
    /\ WriterInit
    /\ SyncIdle
    /\ hpc = "_start"
    /\ tests \in SeqsOf(MainChecks, 0, MaxTests)
    /\ next_test = 1
    /\ ran = <<>>
    /\ serial = <<>>
    /\ exit_port = <<>>
    /\ stack_depth = 0
    /\ tss_loaded = FALSE
    /\ idt = NoIdt
    /\ handler_runs = 0

\* _start: the two println! calls, then test_main().
Start ==
    /\ hpc = "_start"
    /\ LET w == println(println(TheWriter, HelloWorld), AnotherLine)
       IN  /\ cursor_column' = w.cursor_column
           /\ colour_code' = w.colour_code
           /\ buffer' = w.buffer
           /\ panicked' = w.panicked
           /\ written' = w.written
           /\ unwritten_read' = w.unwritten_read
    /\ hpc' = "test_main"
    /\ UNCHANGED <<gvars, svars, tests, next_test, ran, serial, exit_port, stack_depth,
                   tss_loaded, idt, handler_runs>>

\* test_runner (main.rs): serial_println!("Running {} tests", tests.len());
MainRunnerStart ==
    /\ hpc = "test_main"
    /\ serial' = serial_print(serial, "Running")
    /\ hpc' = "test_runner"
    /\ UNCHANGED <<wvars, gvars, svars, tests, next_test, ran, exit_port, stack_depth,
                   tss_loaded, idt, handler_runs>>

\* test_runner (main.rs): the for loop calls the next check; after the loop,
\* exit_qemu(QemuExitCode::Success).
MainRunnerNext ==
    /\ hpc = "test_runner"
    /\ IF next_test <= Len(tests)
       THEN /\ hpc' = tests[next_test]
            /\ ran' = Append(ran, next_test)
            /\ next_test' = next_test + 1
            /\ UNCHANGED exit_port
       ELSE /\ exit_port' = exit_qemu(exit_port, Success)
            /\ hpc' = "exited"
            /\ UNCHANGED <<ran, next_test>>
    /\ UNCHANGED <<wvars, gvars, svars, tests, serial, stack_depth, tss_loaded, idt,
                   handler_runs>>

\* A check returns to the loop of test_runner.
CheckReturns ==
    /\ hpc = "passes"
    /\ hpc' = "test_runner"
    /\ UNCHANGED <<wvars, gvars, svars, tests, next_test, ran, serial, exit_port,
                   stack_depth, tss_loaded, idt, handler_runs>>

\* trivial_assertion: serial_print!("Trivial assertion... "); assert_eq!(1, 0)
\* fails, so serial_println!("[ok]") is not reached.
TrivialAssertion ==
    /\ hpc = "trivial_assertion"
    /\ serial' = serial_print(serial, "Trivial assertion... ")
    /\ hpc' = "panic"
    /\ UNCHANGED <<wvars, gvars, svars, tests, next_test, ran, exit_port, stack_depth,
                   tss_loaded, idt, handler_runs>>

\* panic (cfg(test)): serial_println!("[failed]");
MainPanicFailed ==
    /\ hpc = "panic"
    /\ serial' = serial_print(serial, "[failed]")
    /\ hpc' = "panic_error"
    /\ UNCHANGED <<wvars, gvars, svars, tests, next_test, ran, exit_port, stack_depth,
                   tss_loaded, idt, handler_runs>>

\* panic (cfg(test)): serial_println!("Error: {}", info);
MainPanicError ==
    /\ hpc = "panic_error"
    /\ serial' = serial_print(serial, "Error")
    /\ hpc' = "panic_exit"
    /\ UNCHANGED <<wvars, gvars, svars, tests, next_test, ran, exit_port, stack_depth,
                   tss_loaded, idt, handler_runs>>

\* The panic handler reporting Success, as the one of stack_overflow.rs does.
MainPanicExit_success ==
    /\ hpc = "panic_exit"
    /\ exit_port' = exit_qemu(exit_port, Success)
    /\ hpc' = "exited"
    /\ UNCHANGED <<wvars, gvars, svars, tests, next_test, ran, serial, stack_depth,
                   tss_loaded, idt, handler_runs>>

\* panic (cfg(test)): exit_qemu(QemuExitCode::Failed);
MainPanicExit ==
    /\ hpc = "panic_exit"
    /\ exit_port' = exit_qemu(exit_port, Failed)
    /\ hpc' = "exited"
    /\ UNCHANGED <<wvars, gvars, svars, tests, next_test, ran, serial, stack_depth,
                   tss_loaded, idt, handler_runs>>

\* The steps of test_main().
TestMain ==
    \/ MainRunnerStart
    \/ MainRunnerNext
    \/ CheckReturns
    \/ TrivialAssertion
    \/ MainPanicFailed
    \/ MainPanicError
    \/ MainPanicExit

HarnessNext == Start \/ TestMain

\* The CPU keeps executing: inside test_main(), a step that can be taken is
\* taken.
HarnessSpec == HarnessInit /\ [][HarnessNext]_vars /\ WF_vars(TestMain)

(***************************************************************************)
(* Vocabulary of the properties.                                           *)
(***************************************************************************)
LastRow == BUFFER_HEIGHT - 1

\* Printable ASCII: space to tilde.
IsPrintable(b) == b \in 32 .. 126

\* What the display shows for an input byte other than the newline.
Glyph(b) == IF IsPrintable(b) THEN b ELSE 254

AllPrintable(s) == \A i \in 1 .. Len(s) : IsPrintable(s[i])
NoNewline(s) == \A i \in 1 .. Len(s) : s[i] # 10
OnlyNewlines(s) == \A i \in 1 .. Len(s) : s[i] = 10

\* The cells of row r from column c0 on show the bytes of s.
Shows(buf, r, c0, s) ==
    \A i \in 1 .. Len(s) :
        /\ c0 + i - 1 \in Cols
        /\ buf[r][c0 + i - 1].ascii_char = s[i]

ScreenChars == [ascii_char : 0 .. 255, colour_code : 0 .. 255]

\* C1 as the specification states it: after write_string(s), for s printable
\* with len(s) <= width, the first len(s) cells of the last row hold s,
\* whatever the cursor column was before the call.
C1_ReadBackAnyCursor ==
    (call.op = "write_string" /\ AllPrintable(call.bytes)
        /\ Len(call.bytes) <= BUFFER_WIDTH)
    => Shows(buffer, LastRow, 0, call.bytes)

\* C1 amended: the same read-back when the cursor was at column 0 before the
\* call.
C1_ReadBackFromColumnZero ==
    (call.op = "write_string" /\ AllPrintable(call.bytes)
        /\ Len(call.bytes) <= BUFFER_WIDTH /\ call.col0 = 0)
    => Shows(buffer, LastRow, 0, call.bytes)

C1_Witness ==
    /\ calls = 2
    /\ call.op = "write_string"
    /\ call.col0 = 0
    /\ call.bytes = Fill(BUFFER_WIDTH)
    /\ Shows(buffer, LastRow, 0, Fill(BUFFER_WIDTH))

\* C2: from cursor column 0, write_string of n non-newline bytes with
\* width < n <= 2 * width leaves the first width of them (as displayed) on row
\* height-2 and the rest on row height-1 from column 0.
C2_AutomaticWrap ==
    (call.op = "write_string" /\ call.col0 = 0 /\ NoNewline(call.bytes)
        /\ Len(call.bytes) > BUFFER_WIDTH /\ Len(call.bytes) <= 2 * BUFFER_WIDTH)
    => LET shown == [i \in 1 .. Len(call.bytes) |-> Glyph(call.bytes[i])]
       IN  /\ Shows(buffer, LastRow - 1, 0, SubSeq(shown, 1, BUFFER_WIDTH))
           /\ Shows(buffer, LastRow, 0, SubSeq(shown, BUFFER_WIDTH + 1, Len(shown)))
           /\ cursor_column = Len(shown) - BUFFER_WIDTH

C2_Witness ==
    /\ calls = 2
    /\ call.op = "write_string"
    /\ call.col0 = 0
    /\ call.bytes = Fill(BUFFER_WIDTH + 2)
    /\ Shows(buffer, LastRow - 1, 0, Fill(BUFFER_WIDTH))
    /\ Shows(buffer, LastRow, 0, <<64 + BUFFER_WIDTH + 1, 64 + BUFFER_WIDTH + 2>>)

\* C3: write_string never fails, writes one cell for every byte other than the
\* newline, in order and on the last row, and the cell written for a byte that
\* is neither printable nor the newline holds 0xFE and not the byte.
C3_Placeholder ==
    call.op = "write_string"
    => LET shown == SelectSeq(call.bytes, LAMBDA b : b # 10)
       IN  /\ ~panicked
           /\ Len(call.writes) = Len(shown)
           /\ \A k \in 1 .. Len(shown) :
                 /\ call.writes[k].row = LastRow
                 /\ call.writes[k].col \in Cols
                 /\ ~IsPrintable(shown[k])
                       => /\ call.writes[k].ch.ascii_char = 254
                          /\ call.writes[k].ch.ascii_char # shown[k]
           /\ (call.bytes # <<>> /\ ~IsPrintable(call.bytes[Len(call.bytes)])
                  /\ call.bytes[Len(call.bytes)] # 10)
              => /\ cursor_column >= 1
                 /\ buffer[LastRow][cursor_column - 1].ascii_char = 254

C3_Witness ==
    /\ call.op = "write_string"
    /\ call.bytes = FillNP(BUFFER_WIDTH + 1)
    /\ ~panicked
    /\ Len(call.writes) = BUFFER_WIDTH + 1
    /\ call.writes[BUFFER_WIDTH].ch.ascii_char = 254
    /\ buffer[LastRow][0].ascii_char = 254

\* C4: no operation panics (every index used on the grid is in bounds) and
\* every cell holds a (byte, attribute) pair, also after height or more line
\* breaks.
C4_NoPanic ==
    /\ ~panicked
    /\ buffer \in [Rows -> [Cols -> ScreenChars]]
    /\ cursor_column \in 0 .. BUFFER_WIDTH

C4_Witness ==
    /\ calls = 2
    /\ call.op = "write_string"
    /\ call.bytes = Newlines(BUFFER_HEIGHT + 1)
    /\ ~panicked
    /\ buffer \in [Rows -> [Cols -> ScreenChars]]

\* A row of blank cells in the writer's current attribute.
BlankRow == [c \in Cols |-> ScreenChar(32, colour_code)]

\* The newline of s, when it holds exactly one.
NewlineAt(s) == CHOOSE p \in 1 .. Len(s) : s[p] = 10

\* C5, one step of it: (a) k line breaks move the last row, unchanged, to row
\* height-1-k when k < height, and leave it nowhere in the grid when
\* k >= height; (b) println!(s), for a line s that fits the rest of the last
\* row, leaves s on row height-2; (c) "l1\nl2" leaves l1 on row height-2 and
\* l2 on row height-1.
C5_Step ==
    /\ ((call'.op = "write_string" \/ call'.op = "write_byte")
            /\ call'.bytes # <<>> /\ OnlyNewlines(call'.bytes))
       => LET k == Len(call'.bytes)
          IN  /\ k < BUFFER_HEIGHT => buffer'[LastRow - k] = buffer[LastRow]
              /\ (k >= BUFFER_HEIGHT /\ buffer[LastRow] # BlankRow)
                    => \A r \in Rows : buffer'[r] # buffer[LastRow]
    /\ (call'.op = "println" /\ NoNewline(call'.bytes)
            /\ cursor_column + Len(call'.bytes) <= BUFFER_WIDTH)
       => LET s == call'.bytes
          IN  \A c \in Cols :
                 buffer'[LastRow - 1][c] =
                    IF c >= cursor_column /\ c < cursor_column + Len(s)
                    THEN ScreenChar(Glyph(s[c - cursor_column + 1]), colour_code)
                    ELSE buffer[LastRow][c]
    /\ (call'.op = "write_string"
            /\ Cardinality({i \in 1 .. Len(call'.bytes) : call'.bytes[i] = 10}) = 1)
       => LET s == call'.bytes
              p == NewlineAt(s)
              l1 == [i \in 1 .. p - 1 |-> Glyph(s[i])]
              l2 == [i \in 1 .. Len(s) - p |-> Glyph(s[p + i])]
          IN  (cursor_column + Len(l1) <= BUFFER_WIDTH /\ Len(l2) <= BUFFER_WIDTH)
              => /\ Shows(buffer', LastRow - 1, cursor_column, l1)
                 /\ Shows(buffer', LastRow, 0, l2)

\* C5: a line written on the last row is found unchanged k rows higher after
\* k line breaks, k < height, and is gone after height line breaks; println!(s)
\* leaves s on row height-2 and "Line 1\nLine 2" leaves the two lines on rows
\* height-2 and height-1.
C5_LinesScrollUp == [][C5_Step]_vars

\* A line written by the first operation is on row 0 after height-1 breaks.
C5_Witness ==
    /\ calls = 2
    /\ call.op = "write_string"
    /\ call.bytes = Newlines(BUFFER_HEIGHT - 1)
    /\ Shows(buffer, 0, 0, Fill(BUFFER_WIDTH - 1))

\* C6: after clear_row(r), r < height, every cell of row r is
\* (space, current attribute).
C6_ClearRow ==
    call.op = "clear_row"
    => /\ call.row \in Rows
       /\ \A c \in Cols :
             /\ buffer[call.row][c] = ScreenChar(32, colour_code)
             /\ buffer[call.row][c].ascii_char = 32

\* The last row, full of written text, has been cleared.
C6_Witness ==
    /\ calls = 2
    /\ call.op = "clear_row"
    /\ call.row = LastRow
    /\ call.col0 = BUFFER_WIDTH
    /\ \A c \in Cols : buffer[LastRow][c].ascii_char = 32

\* C7: whenever the WRITER lock is held, interrupts are masked; hence the
\* interrupt handler never waits for a lock held by the flow it interrupted.
C7_LockHeldMasked ==
    /\ lock # "free" => ~interrupts
    /\ ~(pc["irq"] = "lock" /\ lock = "main")

\* The main flow holds the lock in a _print that masked enabled interrupts,
\* after an interrupt was delivered earlier in the run.
C7_Witness ==
    /\ lock = "main"
    /\ pc["main"] = "write"
    /\ Top("main").saved
    /\ ~interrupts
    /\ irqs = 1

Wrote(code) == \E i \in 1 .. Len(exit_port) : exit_port[i] = code
Said(msg) == \E i \in 1 .. Len(serial) : serial[i] = msg

\* C8: once should_overflow has installed the alternate stack and the test
\* table and recurses, the double fault is raised, test_double_fault_handler
\* runs once and the run ends with Success on the exit port; the handler never
\* runs twice and the machine never resets.
C8_OverflowReportsSuccess ==
    /\ (hpc = "recursing" /\ tss_loaded
           /\ idt.double_fault.handler = "test_double_fault_handler")
          ~> (hpc = "exited" /\ exit_port = <<Success>> /\ handler_runs = 1)
    /\ [](handler_runs <= 1)
    /\ [](hpc # "reset")

C8_Witness ==
    /\ hpc = "exited"
    /\ tests[1] = "should_overflow"
    /\ stack_depth = StackFrames
    /\ handler_runs = 1
    /\ exit_port = <<Success>>
    /\ Said("[ok]")

\* C9: the stack-overflow binary reports success (Success on the exit port,
\* "[ok]" on the serial channel) only if test_double_fault_handler ran.
C9_SuccessOnlyFromHandler ==
    (Wrote(Success) \/ Said("[ok]")) => handler_runs >= 1

\* The panic handler of the test build is running.
InPanic == hpc \in {"panic", "panic_error", "panic_exit"}

\* The checks run so far are the first ones of the list, in order.
RanInOrder == ran = [i \in 1 .. Len(ran) |-> i]

\* C10: test_runner runs the checks in list order and Success is written only
\* after every check has returned; once a check panics, no later check runs,
\* "[failed]" and the error are reported, Failed is written and the run ends
\* without Success ever being written.
C10_FailFast ==
    /\ [](RanInOrder)
    /\ [](Wrote(Success)
            => /\ exit_port = <<Success>>
               /\ Len(ran) = Len(tests)
               /\ \A i \in 1 .. Len(tests) : tests[i] = "passes"
               /\ ~Said("[failed]"))
    /\ [][InPanic => (ran' = ran /\ exit_port' \in {exit_port, <<Failed>>}
                        /\ (InPanic' \/ hpc' = "exited"))]_vars
    /\ [](Said("[failed]") => ~Wrote(Success))
    /\ (hpc = "panic")
          ~> (/\ hpc = "exited"
              /\ exit_port = <<Failed>>
              /\ Len(serial) >= 2
              /\ SubSeq(serial, Len(serial) - 1, Len(serial)) = <<"[failed]", "Error">>)

\* The second check of two panicked: Failed was written after the report.
C10_Witness ==
    /\ hpc = "exited"
    /\ tests = <<"passes", "trivial_assertion">>
    /\ ran = <<1, 2>>
    /\ exit_port = <<Failed>>
    /\ serial = <<"Running", "Trivial assertion... ", "[failed]", "Error">>

\* C11: no grid cell is read before the writer has written it: every cell
\* new_line reads is a cell the writer wrote earlier.
C11_NoReadBeforeWrite == ~unwritten_read

\* C12: every cell the writer has written holds a printable byte
\* (0x20..0x7E) or the placeholder 0xFE.
C12_WrittenCellsPrintable ==
    \A cell \in written :
        LET byte == buffer[cell[1]][cell[2]].ascii_char
        IN  IsPrintable(byte) \/ byte = 254

\* C13: a formatting failure inside _print is reported: the println! of the
\* panic handler gets the WRITER lock and writes its report, that is, it is
\* never left waiting for a lock that its own context holds and that nobody
\* will release.
C13_FmtFailureReported ==
    \A c \in Contexts :
        (pc[c] = "lock" /\ frames[c] # <<>> /\ Top(c).ret = "halt") => lock # c

\* The operation of the step is exactly one line break: write_byte(b'\n'),
\* write_string("\n") or println!("").
OneLineBreak(c) ==
    \/ (c.op = "write_byte" \/ c.op = "write_string") /\ c.bytes = <<10>>
    \/ c.op = "println" /\ c.bytes = <<>>

\* C14, one step of it.
C14_Step ==
    OneLineBreak(call')
    => /\ \A r \in 1 .. BUFFER_HEIGHT - 1 : \A c \in Cols :
             buffer'[r - 1][c] = buffer[r][c]
       /\ \A c \in Cols : buffer'[LastRow][c] = ScreenChar(32, colour_code)
       /\ cursor_column' = 0
       /\ colour_code' = colour_code
       /\ ~panicked'

\* C14: a line break maps the grid G to G' with G'[r-1][c] = G[r][c] for r in
\* [1, height), G'[height-1][c] = (space, current attribute), sets
\* cursor_column to 0 and leaves the attribute unchanged; row 0 of G is lost.
C14_ScrollStep == [][C14_Step]_vars

\* A line of width-1 bytes was moved up by write_byte(b'\n').
C14_Witness ==
    /\ calls = 2
    /\ call.op = "write_byte"
    /\ call.bytes = <<10>>
    /\ call.col0 = BUFFER_WIDTH - 1
    /\ Shows(buffer, LastRow - 1, 0, Fill(BUFFER_WIDTH - 1))
    /\ buffer[LastRow] = BlankRow
    /\ cursor_column = 0

\* The operation of the step writes characters.
WritesText(c) == c.op = "write_string" \/ c.op = "write_byte" \/ c.op = "println"

\* C15, in every state: the cursor is within 0..width, and the column of
\* every cell write of the last operation, which is the cursor at that write,
\* is below width.
C15_State ==
    /\ ~panicked
    /\ cursor_column >= 0
    /\ cursor_column <= BUFFER_WIDTH
    /\ \A k \in 1 .. Len(call.writes) :
          /\ call.writes[k].col >= 0
          /\ call.writes[k].col < BUFFER_WIDTH

\* C15, one step of it: with the cursor at width, an operation that starts
\* with a character breaks the line before it writes that character.
C15_Step ==
    (cursor_column = BUFFER_WIDTH /\ WritesText(call')
        /\ call'.bytes # <<>> /\ call'.bytes[1] # 10)
    => /\ call'.writes # <<>>
       /\ call'.writes[1].col = 0
       /\ call'.writes[1].row = LastRow
       /\ call'.op = "write_byte"
             => /\ \A r \in 1 .. BUFFER_HEIGHT - 1 : buffer'[r - 1] = buffer[r]
                /\ buffer'[LastRow][0].ascii_char = call'.bytes[1]
                /\ \A c \in 1 .. BUFFER_WIDTH - 1 :
                      buffer'[LastRow][c] = ScreenChar(32, colour_code)
                /\ cursor_column' = 1

\* C15: 0 <= cursor_column <= width in every state, cursor_column < width at
\* every cell write of write_byte, and when cursor_column has reached width a
\* line break is performed before the next character is written.
C15_CursorInvariant == [](C15_State) /\ [][C15_Step]_vars

\* A byte written with the cursor at width is on column 0 of the last row.
C15_Witness ==
    /\ calls = 2
    /\ call.op = "write_byte"
    /\ call.col0 = BUFFER_WIDTH
    /\ call.bytes = <<126>>
    /\ call.writes[1].col = 0
    /\ cursor_column = 1
    /\ Shows(buffer, LastRow - 1, 0, Fill(BUFFER_WIDTH))

\* The context other than c.
Other(c) == IF c = "main" THEN "irq" ELSE "main"

\* A context is inside a critical section of the WRITER lock.
InCritical(c) == pc[c] = "write" \/ pc[c] = "daccess" \/ pc[c] = "dunlock"

\* C16, in every state: at most one context is inside a critical section, it
\* holds the lock, and no interrupt handler runs while the main flow holds
\* the lock (so none observes a message written in part).
C16_State ==
    /\ \A c \in Contexts : InCritical(c) => (lock = c /\ ~InCritical(Other(c)))
    /\ pc["irq"] # "idle" => lock # "main"

\* C16, one step of it: the grid and the cursor change only in a step of the
\* context that holds the lock, which keeps it; the lock is taken only when
\* free, and released only when every byte of the message has been written.
C16_Step ==
    /\ wvars' # wvars
          => /\ lock \in Contexts
             /\ lock' = lock
             /\ Running(lock)
             /\ InCritical(lock)
             /\ pending'[Other(lock)] = pending[Other(lock)]
             /\ pc' = pc
                   \/ (pc["main"] = "daccess" /\ pc'["main"] = "dunlock")
    /\ lock' # lock
          => \/ lock = "free" /\ pc[lock'] \in {"lock", "body"}
             \/ lock' = "free" /\ pending[lock] = <<>>

\* C16: all cell writes of one _print call happen between one acquisition of
\* the lock and its release, with no cell write of another _print call in
\* between, and no interrupt handler runs in between.
C16_AtomicPrint == [](C16_State) /\ [][C16_Step]_vars

\* The interrupt handler has written its message, whole, after the message
\* of the main flow, whole.
C16_Witness ==
    /\ irqs = 1
    /\ lock = "irq"
    /\ pc["irq"] = "write"
    /\ pending["irq"] = <<>>
    /\ calls >= 1
    /\ Shows(buffer, LastRow, 0, <<65>> \o IrqMsg)

\* C17, in every state: once test_double_fault_handler has been entered, the
\* binary is in the handler or has exited.
C17_State ==
    handler_runs >= 1 => hpc \in {"double_fault_handler", "double_fault_exit", "exited"}

\* C17, one step of it: a step taken after the handler was entered is a step
\* of the handler, towards the exit: it reports or halts, no check is
\* started, the recursion does not go on and the handler is not entered again.
C17_Step ==
    handler_runs >= 1
    => /\ hpc = "double_fault_handler" => hpc' = "double_fault_exit"
       /\ hpc = "double_fault_exit" => hpc' = "exited"
       /\ hpc # "exited"
       /\ ran' = ran
       /\ next_test' = next_test
       /\ stack_depth' = stack_depth
       /\ handler_runs' = handler_runs
       /\ \/ serial' = Append(serial, "[ok]") /\ exit_port' = exit_port
          \/ serial' = serial /\ exit_port' = Append(exit_port, Success)

\* C17: the double-fault path is terminal: after test_double_fault_handler
\* is entered there is no step back to normal execution, only the handler's
\* report and the halt.
C17_HandlerTerminal == [](C17_State) /\ [][C17_Step]_vars

\* The run ended in the handler with a second check never started.
C17_Witness ==
    /\ hpc = "exited"
    /\ handler_runs = 1
    /\ Len(tests) >= 2
    /\ tests[1] = "should_overflow"
    /\ ran = <<1>>
    /\ next_test = 2

\* C18, one step of it.
C18_Step ==
    (cursor_column = 0 /\ call'.op = "write_string" /\ AllPrintable(call'.bytes)
        /\ Len(call'.bytes) <= BUFFER_WIDTH)
    => LET s == call'.bytes
       IN  /\ \A r \in 0 .. BUFFER_HEIGHT - 2 : buffer'[r] = buffer[r]
           /\ \A c \in Cols :
                 buffer'[LastRow][c] =
                    IF c < Len(s) THEN ScreenChar(s[c + 1], colour_code)
                    ELSE buffer[LastRow][c]
           /\ cursor_column' = Len(s)
           /\ colour_code' = colour_code
           /\ ~panicked'

\* C18: from cursor_column = 0, write_string(s) for printable s without a
\* newline and len(s) <= width sets cells [0, len(s)) of the last row to the
\* bytes of s in the current attribute, does not scroll, leaves the rest of
\* the last row and every row above unchanged and ends with
\* cursor_column = len(s).
C18_WriteStringFrame == [][C18_Step]_vars

\* After println!("AB"), write_string of width-1 bytes: "AB" is still on the
\* row above and the last cell of the last row is still blank.
C18_Witness ==
    /\ calls = 2
    /\ call.op = "write_string"
    /\ call.col0 = 0
    /\ call.bytes = Fill(BUFFER_WIDTH - 1)
    /\ Shows(buffer, LastRow, 0, Fill(BUFFER_WIDTH - 1))
    /\ Shows(buffer, LastRow - 1, 0, Fill(2))
    /\ buffer[LastRow][BUFFER_WIDTH - 1] = ScreenChar(32, colour_code)
    /\ cursor_column = BUFFER_WIDTH - 1

\* C19, one step of it: (a) width non-newline bytes written from column 0
\* stay on the last row, nothing scrolls and the cursor is at width; (b) with
\* the cursor at width, one line break scrolls once: the full line is on row
\* height-2 and the last row is blank; (c) println! of a line of width bytes
\* does both.
C19_Step ==
    /\ (cursor_column = 0 /\ call'.op = "write_string" /\ NoNewline(call'.bytes)
            /\ Len(call'.bytes) = BUFFER_WIDTH)
       => /\ \A r \in 0 .. BUFFER_HEIGHT - 2 : buffer'[r] = buffer[r]
          /\ \A c \in Cols :
                buffer'[LastRow][c] = ScreenChar(Glyph(call'.bytes[c + 1]), colour_code)
          /\ cursor_column' = BUFFER_WIDTH
    /\ (cursor_column = BUFFER_WIDTH /\ OneLineBreak(call'))
       => /\ \A r \in 1 .. BUFFER_HEIGHT - 1 : buffer'[r - 1] = buffer[r]
          /\ buffer'[LastRow - 1] = buffer[LastRow]
          /\ \A c \in Cols : buffer'[LastRow][c] = ScreenChar(32, colour_code)
          /\ cursor_column' = 0
    /\ (cursor_column = 0 /\ call'.op = "println" /\ NoNewline(call'.bytes)
            /\ Len(call'.bytes) = BUFFER_WIDTH)
       => /\ \A r \in 1 .. BUFFER_HEIGHT - 2 : buffer'[r - 1] = buffer[r]
          /\ \A c \in Cols :
                /\ buffer'[LastRow - 1][c] =
                      ScreenChar(Glyph(call'.bytes[c + 1]), colour_code)
                /\ buffer'[LastRow][c] = ScreenChar(32, colour_code)
          /\ cursor_column' = 0

\* C19: the wrap is deferred: exactly width non-newline characters written
\* from column 0 all stay on the last row with cursor_column = width and no
\* scroll; a newline written next scrolls exactly once, leaving the full line
\* on row height-2 directly above the blank last row.
C19_DeferredWrap == [][C19_Step]_vars

\* A full line, then write_string("\n"): the line is on row height-2.
C19_Witness ==
    /\ calls = 2
    /\ call.op = "write_string"
    /\ call.bytes = <<10>>
    /\ call.col0 = BUFFER_WIDTH
    /\ Shows(buffer, LastRow - 1, 0, Fill(BUFFER_WIDTH))
    /\ buffer[LastRow] = BlankRow
    /\ cursor_column = 0

\* C20, one step of it: (a) clear_row(r) leaves every row other than r, the
\* cursor and the attribute unchanged; (b) a character written right after
\* clear_row(height-1) is at the column the cursor had before the clear_row.
C20_Step ==
    /\ call'.op = "clear_row"
       => /\ \A r \in Rows \ {call'.row} : buffer'[r] = buffer[r]
          /\ cursor_column' = cursor_column
          /\ colour_code' = colour_code
    /\ (call.op = "clear_row" /\ call.row = LastRow /\ call'.op = "write_byte"
            /\ call'.bytes # <<10>> /\ cursor_column < BUFFER_WIDTH)
       => LET ch == ScreenChar(call'.bytes[1], colour_code)
          IN  /\ call'.writes = <<[row |-> LastRow, col |-> call.col0, ch |-> ch]>>
              /\ \A c \in Cols :
                    buffer'[LastRow][c] =
                       IF c = call.col0 THEN ch ELSE ScreenChar(32, colour_code)
              /\ cursor_column' = call.col0 + 1

====
